---- MODULE Spec2Model ----
(***************************************************************************)
(* Model of weather_app_new.py: one Streamlit script run per user          *)
(* interaction.  A run with a city and the search flag set fetches the     *)
(* current weather, then the forecast, normalizes the forecast entries     *)
(* into df_weather, aggregates them by (date, Day/Night), shows summary    *)
(* statistics, two time-windowed charts, the cloud summary and the cloud   *)
(* heatmap.                                                                *)
(*                                                                         *)
(* Numbers: temperatures, humidity and cloud percentages are integers;     *)
(* every mean is an exact rational <<n, d>> in lowest terms with d > 0,    *)
(* and <<0, 0>> is NaN (pandas' mean of an empty Series).  Timestamps are  *)
(* seconds since day 0, 00:00:00.                                          *)
(***************************************************************************)
EXTENDS Integers, Sequences, FiniteSets, TLC

\* ------------------------------------------------------------- bounds

\* Longest forecast list of the aggregation inputs.
MaxLen == 3
\* Longest forecast list of the time-window inputs.
MaxWin == 2
\* Longest forecast list of the cloud inputs.
MaxCloud == 2
\* Longest forecast list of the general pipeline inputs.
MaxList == 2

\* ---------------------------------------------------------- rationals

NaN == <<0, 0>>

IsNaN(r) == r[2] = 0

Abs(n) == IF n < 0 THEN -n ELSE n

RECURSIVE GCD(_, _)
GCD(a, b) == IF b = 0 THEN a ELSE GCD(b, a % b)

\* n/d in lowest terms with a positive denominator; d = 0 is NaN.
Rat(n, d) ==
    IF d = 0 THEN NaN
    ELSE LET g == GCD(Abs(n), Abs(d))
             s == IF d < 0 THEN -1 ELSE 1
         IN  <<(s * n) \div g, (s * d) \div g>>

RAdd(a, b) == IF IsNaN(a) \/ IsNaN(b) THEN NaN
              ELSE Rat(a[1] * b[2] + b[1] * a[2], a[2] * b[2])

RSub(a, b) == IF IsNaN(a) \/ IsNaN(b) THEN NaN
              ELSE Rat(a[1] * b[2] - b[1] * a[2], a[2] * b[2])

\* a > k for an integer k; every comparison with NaN is false.
RGtInt(a, k) == ~IsNaN(a) /\ a[1] > k * a[2]

RECURSIVE SumInts(_)
SumInts(s) == IF s = <<>> THEN 0 ELSE Head(s) + SumInts(Tail(s))

RECURSIVE SumRats(_)
SumRats(s) == IF s = <<>> THEN Rat(0, 1) ELSE RAdd(Head(s), SumRats(Tail(s)))

\* Series.mean() of numbers: NaN when the Series is empty.
MeanInts(s) == Rat(SumInts(s), Len(s))

\* Series.mean() of a column of means.
MeanRats(s) ==
    IF s = <<>> THEN NaN
    ELSE LET t == SumRats(s) IN Rat(t[1], t[2] * Len(s))

\* ---------------------------------------------------------- sequences

RECURSIVE SelectSeqBy(_, _)
\* Boolean-mask row selection df[mask]: the rows whose index is in keep, in order.
SelectSeqBy(s, keep) ==
    IF s = <<>> THEN <<>>
    ELSE LET n == Len(s)
             front == SelectSeqBy(SubSeq(s, 1, n - 1), keep)
         IN  IF n \in keep THEN Append(front, s[n]) ELSE front

Column(rows, c) == [i \in 1..Len(rows) |-> rows[i][c]]

\* ------------------------------------------------------ forecast data

SecondsPerHour == 3600
SecondsPerDay == 86400

\* pd.to_datetime of a dt_txt "day hour:00:sec" (a triple <<day, hour, sec>>).
to_datetime(txt) == txt[1] * SecondsPerDay + txt[2] * SecondsPerHour + txt[3]

\* Series.dt.hour and Series.dt.date of a timestamp.
dt_hour(t) == (t % SecondsPerDay) \div SecondsPerHour
dt_date(t) == t \div SecondsPerDay

\* One entry of the forecast response's "list", as the API sends it.  missing
\* names a key the entry lacks ("none": complete).  wrongtype names a key
\* whose value is of another JSON type than documented ("none": all as
\* documented): the loop copies a value without looking at its type, and
\* nothing after it reads description or wind_direction.
Entry(txt, temp, humidity, clouds, missing, wrongtype) ==
    [dt_txt |-> txt,
     main |-> [temp |-> temp, feels_like |-> temp - 2, humidity |-> humidity],
     weather |-> <<[description |-> "clear sky"]>>,
     wind |-> [speed |-> 4, deg |-> 180],
     clouds |-> [all |-> clouds],
     missing |-> missing,
     wrongtype |-> wrongtype]

\* The row the normalization loop appends for one entry, in column order.
RowOfMutColumnsSwapped(forecast) ==
    [time |-> forecast.dt_txt,
     temp |-> forecast.main.temp,
     description |-> forecast.weather[1].description,
     humidity |-> forecast.main.humidity,
     wind_speed |-> forecast.main.feels_like,
     feels_like |-> forecast.wind.speed,
     wind_direction |-> forecast.wind.deg,
     clouds |-> forecast.clouds.all]

RowOf(forecast) ==
    [time |-> forecast.dt_txt,
     temp |-> forecast.main.temp,
     description |-> forecast.weather[1].description,
     humidity |-> forecast.main.humidity,
     wind_speed |-> forecast.wind.speed,
     feels_like |-> forecast.main.feels_like,
     wind_direction |-> forecast.wind.deg,
     clouds |-> forecast.clouds.all]

\* A subscript of the loop body raises (KeyError) on some entry.
LoopRaises(list) == \E i \in 1..Len(list) : list[i].missing # "none"

\* df_weather after pd.DataFrame(weather, ...) and the pd.to_datetime of its
\* time column.
DataFrameOf(list) ==
    [i \in 1..Len(list) |-> [RowOf(list[i]) EXCEPT !.time = to_datetime(@)]]

\* ----------------------------------------------------- agg_day_night

PeriodMutInclusive18(h) == IF 6 <= h /\ h <= 18 THEN "Day" ELSE "Night"

Period(h) == IF 6 <= h /\ h < 18 THEN "Day" ELSE "Night"

\* The groupby key of one row: its date and period columns.
KeyOf(row) == <<dt_date(row.time), Period(dt_hour(row.time))>>

GroupKeysMutAllPeriods(df) ==
    {<<dt_date(df[i].time), p>> : i \in 1..Len(df), p \in {"Day", "Night"}}

\* The groups groupby(['date', 'period']) forms: the keys that occur.
GroupKeys(df) == {KeyOf(df[i]) : i \in 1..Len(df)}

\* The rows of one group, in frame order.
GroupRows(df, k) == SelectSeqBy(df, {i \in 1..Len(df) : KeyOf(df[i]) = k})

\* groupby sorts its keys: by date, then 'Day' before 'Night'.
KeyLess(a, b) == a[1] < b[1] \/ (a[1] = b[1] /\ a[2] = "Day" /\ b[2] = "Night")

RECURSIVE SortKeys(_)
SortKeys(S) ==
    IF S = {} THEN <<>>
    ELSE LET m == CHOOSE x \in S : \A y \in S \ {x} : KeyLess(x, y)
         IN  <<m>> \o SortKeys(S \ {m})

GroupMeanMutFirst(rows, c) == Rat(rows[1][c], 1)

\* .mean() of one column of one group.
GroupMean(rows, c) == MeanInts(Column(rows, c))

agg_day_night(df) ==
    LET keys == SortKeys(GroupKeys(df))
    IN  [j \in 1..Len(keys) |->
            LET rows == GroupRows(df, keys[j])
            IN  [date |-> keys[j][1],
                 period |-> keys[j][2],
                 temp |-> GroupMean(rows, "temp"),
                 humidity |-> GroupMean(rows, "humidity")]]

\* ------------------------------------------- Day/Night table and cards

\* temp_data.groupby('date')['temp'].mean(): per date, the mean of the temp
\* column of the aggregate's rows of that date.
DailyAverage(agg) ==
    LET dates == {agg[j].date : j \in 1..Len(agg)}
    IN  [d \in dates |->
            MeanRats(Column(SelectSeqBy(agg, {j \in 1..Len(agg) : agg[j].date = d}),
                            "temp"))]

\* day_night_agg[day_night_agg['period'] == p]['temp'].mean()
PeriodAverage(agg, p) ==
    MeanRats(Column(SelectSeqBy(agg, {j \in 1..Len(agg) : agg[j].period = p}), "temp"))

TempDiffMutAbs(day, night) ==
    LET x == RSub(day, night) IN IF IsNaN(x) THEN x ELSE Rat(Abs(x[1]), x[2])

TempDiff(day, night) == RSub(day, night)

\* f"{x:.1f}": "nan" for NaN, else x rounded to tenths (ties to even, which is
\* what the float formatting gives for the exactly representable ties).
Format1(x) ==
    IF IsNaN(x) THEN [kind |-> "nan", tenths |-> 0]
    ELSE LET n == 10 * x[1]
             q == n \div x[2]
             r == n % x[2]
             up == 2 * r > x[2] \/ (2 * r = x[2] /\ q % 2 = 1)
         IN  [kind |-> "number", tenths |-> IF up THEN q + 1 ELSE q]

\* ---------------------------------------------------- time-window filter

SevenDays == 7 * SecondsPerDay

TimeWindowMutExclusive(df, now) ==
    SelectSeqBy(df, {i \in 1..Len(df) :
                        df[i].time < now + SevenDays /\ df[i].time >= now})

\* df_weather[(time <= next_week) & (time >= now)].copy()
TimeWindow(df, now) ==
    LET next_week == now + SevenDays
    IN  SelectSeqBy(df, {i \in 1..Len(df) :
                            df[i].time <= next_week /\ df[i].time >= now})

\* ------------------------------------------------------- cloud summary

CloudLabelMutInclusive(avg) ==
    IF ~IsNaN(avg) /\ avg[1] >= 70 * avg[2] THEN "High"
    ELSE IF ~IsNaN(avg) /\ avg[1] >= 30 * avg[2] THEN "Moderate"
    ELSE "Low"

\* The conditional expression of the cloud card's details line.
CloudLabel(avg) ==
    IF RGtInt(avg, 70) THEN "High"
    ELSE IF RGtInt(avg, 30) THEN "Moderate"
    ELSE "Low"

\* The (day, hour) index pair of one row in plot_cloud_heatmap.
PivotKey(row) == <<dt_date(row.time), dt_hour(row.time)>>

\* DataFrame.pivot raises ValueError when an (index, column) pair repeats.
PivotRaises(df) ==
    \E i, j \in 1..Len(df) : i < j /\ PivotKey(df[i]) = PivotKey(df[j])

\* The pivot's cells that hold a value, when no pair repeats.
PivotClouds(df) ==
    [k \in {PivotKey(df[i]) : i \in 1..Len(df)} |->
        LET i == CHOOSE i \in 1..Len(df) : PivotKey(df[i]) = k IN df[i].clouds]

\* ------------------------------------------------------------- inputs

Cities == {"", "London"}

\* What a GET can come back with: a status code and whether the body holds
\* every field the script reads.
CurrentResponses == [status : {200, 404}, complete : BOOLEAN]

RECURSIVE SeqsUpTo(_, _)
\* The non-empty sequences over S of length at most n.
SeqsUpTo(S, n) ==
    IF n = 0 THEN {}
    ELSE LET shorter == SeqsUpTo(S, n - 1)
         IN  {<<e>> : e \in S} \cup shorter
                \cup {Append(q, e) : q \in shorter, e \in S}

RECURSIVE TimedSeqsUpTo(_, _)
\* Those of strictly increasing dt_txt: the API's 3-hourly series.
TimedSeqsUpTo(S, n) ==
    IF n = 0 THEN {}
    ELSE LET shorter == TimedSeqsUpTo(S, n - 1)
             later == {p \in shorter \X S :
                         to_datetime(p[1][Len(p[1])].dt_txt) < to_datetime(p[2].dt_txt)}
         IN  {<<e>> : e \in S} \cup shorter \cup {Append(p[1], p[2]) : p \in later}

\* Lists every input family holds: one with an incomplete entry, one whose
\* two entries fall in the same hour of the same day.
EdgeLists ==
    {<<Entry(<<1, 6, 0>>, 10, 50, 50, "none", "none"),
       Entry(<<1, 9, 0>>, 20, 50, 50, "main.temp", "none")>>,
     <<Entry(<<1, 6, 0>>, 10, 50, 40, "none", "none"),
       Entry(<<1, 6, 1>>, 20, 50, 60, "none", "none")>>}

\* Aggregation inputs: two dates, the hours around the 6 and 18 boundaries.
AggEntries ==
    {Entry(<<d, h, 0>>, t, hum, 50, "none", "none") :
        d \in {1, 2}, h \in {5, 6, 17, 18}, t \in {10, 20}, hum \in {40, 70}}

AggLists == TimedSeqsUpTo(AggEntries, MaxLen) \cup EdgeLists

AggNows == {to_datetime(<<1, 12, 0>>), to_datetime(<<2, 0, 0>>)}

\* Time-window inputs: timestamps around now and now + 7 days, in any order.
WinEntries ==
    {Entry(txt, 10, 50, 50, "none", "none") :
        txt \in {<<0, 23, 3599>>, <<1, 0, 0>>, <<1, 0, 1>>, <<8, 0, 0>>, <<8, 0, 1>>}}

WinLists == SeqsUpTo(WinEntries, MaxWin) \cup EdgeLists

WinNows == {to_datetime(<<1, 0, 0>>), to_datetime(<<1, 0, 1>>)}

\* Cloud inputs: coverages around the 30 and 70 thresholds.
CloudEntries ==
    {Entry(txt, 10, 50, c, "none", "none") :
        txt \in {<<1, 6, 0>>, <<1, 9, 0>>, <<2, 6, 0>>},
        c \in {29, 30, 31, 69, 70, 71}}

CloudLists == SeqsUpTo(CloudEntries, MaxCloud) \cup EdgeLists

CloudNows == {to_datetime(<<1, 0, 0>>)}

\* General inputs: complete entries, entries that lack a key, entries with a
\* key of the wrong JSON type.
Defects ==
    {<<"none", "none">>, <<"main.temp", "none">>, <<"clouds", "none">>,
     <<"none", "weather.description">>, <<"none", "wind.deg">>}

PipelineEntries ==
    {Entry(txt, t, 50, 50, x[1], x[2]) :
        txt \in {<<1, 6, 0>>, <<1, 18, 0>>, <<9, 6, 0>>}, t \in {10, 20}, x \in Defects}

PipelineLists == SeqsUpTo(PipelineEntries, MaxList) \cup EdgeLists

PipelineNows == {to_datetime(<<1, 12, 0>>)}

\* Settings inputs: the names typed into "Add Favorite Location", and a small
\* forecast family for the runs around them.
MaxNames == 3

NamePool == <<"Paris", "Rome", "Oslo", "Lima", "Cairo">>

FavNames == {NamePool[k] : k \in 1..MaxNames}

SettingsLists == {<<Entry(<<1, 6, 0>>, 10, 50, 50, "none", "none")>>} \cup EdgeLists

\* -------------------------------------------------------------- state

VARIABLES
    city,            \* the text input's value in this run
    search_clicked,  \* st.session_state.search_clicked
    pc,              \* where the script run stands
    gets,            \* the endpoints this run sent a GET to, in order
    response,        \* the last response received
    df_weather,      \* the normalized forecast frame
    day_night_agg,   \* agg_day_night's result
    daily_avg,       \* the 'Daily Average' row
    day_temp_avg, night_temp_avg, temp_diff,
    cards,           \* the three summary cards' formatted numbers
    nows,            \* pd.Timestamp.now() of each chart drawn
    df_week,         \* the frame each chart drew
    avg_clouds, cloud_label,
    cloud_matrix,    \* plot_cloud_heatmap's pivot
    ui,              \* what this run put on the page, in order
    favorites,       \* settings.json's "favorites" list
    saved,           \* save_settings ran in the latest run's manage_settings
    pressed          \* the favorites button pressed in the latest run

vars == <<city, search_clicked, pc, gets, response, df_weather, day_night_agg,
          daily_avg, day_temp_avg, night_temp_avg, temp_diff, cards, nows,
          df_week, avg_clouds, cloud_label, cloud_matrix, ui, favorites, saved,
          pressed>>

NoResponse == [status |-> 0, complete |-> FALSE, list |-> <<>>]

NoButton == [button |-> "none", name |-> ""]

\* The values of everything a run computes, before the run computes it.
Cleared ==
    /\ gets = <<>>
    /\ response = NoResponse
    /\ df_weather = <<>>
    /\ day_night_agg = <<>>
    /\ daily_avg = <<>>
    /\ day_temp_avg = NaN
    /\ night_temp_avg = NaN
    /\ temp_diff = NaN
    /\ cards = <<>>
    /\ nows = <<>>
    /\ df_week = <<>>
    /\ avg_clouds = NaN
    /\ cloud_label = ""
    /\ cloud_matrix = <<>>
    /\ ui = <<>>

\* The same, as the start of a run.
ClearRun ==
    /\ gets' = <<>>
    /\ response' = NoResponse
    /\ df_weather' = <<>>
    /\ day_night_agg' = <<>>
    /\ daily_avg' = <<>>
    /\ day_temp_avg' = NaN
    /\ night_temp_avg' = NaN
    /\ temp_diff' = NaN
    /\ cards' = <<>>
    /\ nows' = <<>>
    /\ df_week' = <<>>
    /\ avg_clouds' = NaN
    /\ cloud_label' = ""
    /\ cloud_matrix' = <<>>
    /\ ui' = <<>>

Init ==
    /\ city = ""
    /\ search_clicked = FALSE
    /\ pc = "idle"
    /\ Cleared
    /\ favorites = <<>>
    /\ saved = FALSE
    /\ pressed = NoButton

data == <<df_weather, day_night_agg, daily_avg, day_temp_avg, night_temp_avg,
          temp_diff, cards, nows, df_week, avg_clouds, cloud_label, cloud_matrix>>

session == <<city, search_clicked, favorites, saved, pressed>>

FailMutReportedTwice ==
    /\ ui' = ui \o <<"error", "error">>
    /\ pc' = "idle"

\* st.error(...) ends the run: both except clauses and both else branches are
\* the last statements of the script.
Fail ==
    /\ ui' = Append(ui, "error")
    /\ pc' = "idle"

\* ------------------------------------------------------------ actions

\* A script run starts: the sidebar reads the city and the search button, and
\* the page is drawn afresh.
Rerun ==
    /\ pc = "idle"
    /\ \E c \in Cities, clicked \in BOOLEAN :
          /\ city' = c
          /\ search_clicked' = (search_clicked \/ clicked)
    /\ pc' = "main"
    /\ ClearRun
    /\ saved' = FALSE
    /\ pressed' = NoButton
    /\ UNCHANGED favorites

AddFavoriteMutNoMembershipTest ==
    /\ pc = "idle"
    /\ \E new_favorite \in FavNames \cup {""} :
          /\ pressed' = [button |-> "Add", name |-> new_favorite]
          /\ IF new_favorite # ""
             THEN /\ favorites' = Append(favorites, new_favorite)
                  /\ saved' = TRUE
             ELSE /\ saved' = FALSE
                  /\ UNCHANGED favorites
    /\ pc' = "main"
    /\ ClearRun
    /\ UNCHANGED <<city, search_clicked>>

\* A run started by the "Add" button: manage_settings appends the typed name
\* and saves, unless the name is empty or already a favorite; the other
\* widgets keep their values and the run goes on to the main content.
AddFavorite ==
    /\ pc = "idle"
    /\ \E new_favorite \in FavNames \cup {""} :
          /\ pressed' = [button |-> "Add", name |-> new_favorite]
          /\ IF new_favorite # "" /\ new_favorite \notin {favorites[k] : k \in 1..Len(favorites)}
             THEN /\ favorites' = Append(favorites, new_favorite)
                  /\ saved' = TRUE
             ELSE /\ saved' = FALSE
                  /\ UNCHANGED favorites
    /\ pc' = "main"
    /\ ClearRun
    /\ UNCHANGED <<city, search_clicked>>

\* A run started by a favorite's remove button: the list without that name is
\* saved and st.rerun() abandons the run for a fresh one, which finds the same
\* widget values and no button pressed.
RemoveFavorite ==
    /\ pc = "idle"
    /\ \E i \in 1..Len(favorites) :
          /\ pressed' = [button |-> "Remove", name |-> favorites[i]]
          /\ favorites' = SelectSeqBy(favorites, {k \in 1..Len(favorites) :
                                                    favorites[k] # favorites[i]})
    /\ saved' = TRUE
    /\ pc' = "main"
    /\ ClearRun
    /\ UNCHANGED <<city, search_clicked>>

\* The else branch of the search_clicked test: the welcome card.
Welcome ==
    /\ pc = "main"
    /\ ~search_clicked
    /\ ui' = Append(ui, "welcome")
    /\ pc' = "idle"
    /\ UNCHANGED <<session, gets, response, data>>

\* The else branch of `if city`.
WarnEmptyCity ==
    /\ pc = "main"
    /\ search_clicked
    /\ city = ""
    /\ ui' = Append(ui, "warning")
    /\ pc' = "idle"
    /\ UNCHANGED <<session, gets, response, data>>

GetCurrentMutNoCityGuard ==
    /\ pc = "main"
    /\ search_clicked
    /\ gets' = Append(gets, "weather")
    /\ \/ /\ Fail
          /\ UNCHANGED response
       \/ /\ \E r \in CurrentResponses :
                response' = [status |-> r.status, complete |-> r.complete, list |-> <<>>]
          /\ pc' = "current"
          /\ UNCHANGED ui
    /\ UNCHANGED <<session, data>>

\* requests.get on the current-weather endpoint: it raises, or a response
\* comes back.
GetCurrent ==
    /\ pc = "main"
    /\ search_clicked
    /\ city # ""
    /\ gets' = Append(gets, "weather")
    /\ \/ /\ Fail
          /\ UNCHANGED response
       \/ /\ \E r \in CurrentResponses :
                response' = [status |-> r.status, complete |-> r.complete, list |-> <<>>]
          /\ pc' = "current"
          /\ UNCHANGED ui
    /\ UNCHANGED <<session, data>>

ShowCurrentMutForecastAnyway ==
    /\ pc = "current"
    /\ IF response.status = 200 /\ response.complete
       THEN ui' = Append(ui, "current")
       ELSE ui' = Append(ui, "error")
    /\ pc' = "forecast"
    /\ UNCHANGED <<session, gets, response, data>>

\* The status test and the current-weather section: the fields are read (a
\* missing one raises into the outer except), then the cards and the map are
\* drawn.  Another status than 200 is reported, followed by the response's
\* text.
ShowCurrent ==
    /\ pc = "current"
    /\ IF response.status = 200 /\ response.complete
       THEN /\ ui' = Append(ui, "current")
            /\ pc' = "forecast"
       ELSE IF response.status = 200
       THEN Fail
       ELSE /\ ui' = ui \o <<"error", "response_text">>
            /\ pc' = "idle"
    /\ UNCHANGED <<session, gets, response, data>>

\* requests.get on the forecast endpoint.
GetForecast(Lists) ==
    /\ pc = "forecast"
    /\ gets' = Append(gets, "forecast")
    /\ \/ /\ Fail
          /\ UNCHANGED response
       \/ /\ \E code \in {200, 404}, list \in Lists :
                response' = [status |-> code, complete |-> ~LoopRaises(list), list |-> list]
          /\ pc' = "normalize"
          /\ UNCHANGED ui
    /\ UNCHANGED <<session, data>>

\* The status test, the normalization loop, the DataFrame and the conversion
\* of its time column.
Normalize ==
    /\ pc = "normalize"
    /\ IF response.status = 200 /\ ~LoopRaises(response.list)
       THEN /\ df_weather' = DataFrameOf(response.list)
            /\ pc' = "day_night"
            /\ UNCHANGED ui
       ELSE /\ Fail
            /\ UNCHANGED df_weather
    /\ UNCHANGED <<session, gets, response, day_night_agg, daily_avg, day_temp_avg,
                   night_temp_avg, temp_diff, cards, nows, df_week, avg_clouds,
                   cloud_label, cloud_matrix>>

\* The Day/Night analysis: the aggregate, the temperature table with its
\* Daily Average row, and the three summary cards.
DayNightAnalysis ==
    /\ pc = "day_night"
    /\ LET agg == agg_day_night(df_weather)
           day == PeriodAverage(agg, "Day")
           night == PeriodAverage(agg, "Night")
           diff == TempDiff(day, night)
       IN  /\ day_night_agg' = agg
           /\ daily_avg' = DailyAverage(agg)
           /\ day_temp_avg' = day
           /\ night_temp_avg' = night
           /\ temp_diff' = diff
           /\ cards' = [day |-> Format1(day), night |-> Format1(night),
                        diff |-> Format1(diff)]
    /\ ui' = ui \o <<"day_night_table", "summary_cards">>
    /\ pc' = "feels_like"
    /\ UNCHANGED <<session, gets, response, df_weather, nows, df_week, avg_clouds,
                   cloud_label, cloud_matrix>>

\* A chart function reads the clock and draws the rows of its window.
DrawWindow(Nows, chart) ==
    /\ \E now \in Nows :
          /\ IF nows = <<>> THEN TRUE ELSE nows[Len(nows)] <= now
          /\ nows' = Append(nows, now)
          /\ df_week' = Append(df_week, TimeWindow(df_weather, now))
    /\ ui' = Append(ui, chart)
    /\ UNCHANGED <<session, gets, response, df_weather, day_night_agg, daily_avg,
                   day_temp_avg, night_temp_avg, temp_diff, cards, avg_clouds,
                   cloud_label, cloud_matrix>>

PlotFeelsLike(Nows) ==
    /\ pc = "feels_like"
    /\ DrawWindow(Nows, "feels_like_chart")
    /\ pc' = "three_charts"

PlotWeather3Charts(Nows) ==
    /\ pc = "three_charts"
    /\ DrawWindow(Nows, "three_charts")
    /\ pc' = "clouds"

\* The cloud card: the mean of the clouds column and its details line.
CloudSummary ==
    /\ pc = "clouds"
    /\ LET avg == MeanInts(Column(df_weather, "clouds"))
       IN  /\ avg_clouds' = avg
           /\ cloud_label' = CloudLabel(avg)
    /\ ui' = Append(ui, "cloud_card")
    /\ pc' = "heatmap"
    /\ UNCHANGED <<session, gets, response, df_weather, day_night_agg, daily_avg,
                   day_temp_avg, night_temp_avg, temp_diff, cards, nows, df_week,
                   cloud_matrix>>

\* plot_cloud_heatmap: the pivot raises into the inner except when a (day,
\* hour) pair repeats; else the heatmap is drawn and the run ends.
PlotCloudHeatmap ==
    /\ pc = "heatmap"
    /\ IF PivotRaises(df_weather)
       THEN /\ Fail
            /\ UNCHANGED cloud_matrix
       ELSE /\ cloud_matrix' = PivotClouds(df_weather)
            /\ ui' = Append(ui, "heatmap")
            /\ pc' = "idle"
    /\ UNCHANGED <<session, gets, response, df_weather, day_night_agg, daily_avg,
                   day_temp_avg, night_temp_avg, temp_diff, cards, nows, df_week,
                   avg_clouds, cloud_label>>

\* ----------------------------------------------------- specifications

Next ==
    \/ Rerun
    \/ Welcome
    \/ WarnEmptyCity
    \/ GetCurrent
    \/ ShowCurrent
    \/ GetForecast(PipelineLists)
    \/ Normalize
    \/ DayNightAnalysis
    \/ PlotFeelsLike(PipelineNows)
    \/ PlotWeather3Charts(PipelineNows)
    \/ CloudSummary
    \/ PlotCloudHeatmap

Spec == Init /\ [][Next]_vars

NextAgg ==
    \/ Rerun
    \/ Welcome
    \/ WarnEmptyCity
    \/ GetCurrent
    \/ ShowCurrent
    \/ GetForecast(AggLists)
    \/ Normalize
    \/ DayNightAnalysis
    \/ PlotFeelsLike(AggNows)
    \/ PlotWeather3Charts(AggNows)
    \/ CloudSummary
    \/ PlotCloudHeatmap

SpecAgg == Init /\ [][NextAgg]_vars

NextWin ==
    \/ Rerun
    \/ Welcome
    \/ WarnEmptyCity
    \/ GetCurrent
    \/ ShowCurrent
    \/ GetForecast(WinLists)
    \/ Normalize
    \/ DayNightAnalysis
    \/ PlotFeelsLike(WinNows)
    \/ PlotWeather3Charts(WinNows)
    \/ CloudSummary
    \/ PlotCloudHeatmap

SpecWin == Init /\ [][NextWin]_vars

NextCloud ==
    \/ Rerun
    \/ Welcome
    \/ WarnEmptyCity
    \/ GetCurrent
    \/ ShowCurrent
    \/ GetForecast(CloudLists)
    \/ Normalize
    \/ DayNightAnalysis
    \/ PlotFeelsLike(CloudNows)
    \/ PlotWeather3Charts(CloudNows)
    \/ CloudSummary
    \/ PlotCloudHeatmap

SpecCloud == Init /\ [][NextCloud]_vars

NextSettings ==
    \/ Rerun
    \/ AddFavorite
    \/ RemoveFavorite
    \/ Welcome
    \/ WarnEmptyCity
    \/ GetCurrent
    \/ ShowCurrent
    \/ GetForecast(SettingsLists)
    \/ Normalize
    \/ DayNightAnalysis
    \/ PlotFeelsLike(PipelineNows)
    \/ PlotWeather3Charts(PipelineNows)
    \/ CloudSummary
    \/ PlotCloudHeatmap

SpecSettings == Init /\ [][NextSettings]_vars

\* ------------------------------------------------------------- claims
\* The properties below read the forecast as the API sent it (response.list)
\* and compare what the run computed with it.

RECURSIVE SumOver(_, _)
\* The sum of f over the indices in S.
SumOver(f, S) ==
    IF S = {} THEN 0
    ELSE LET i == CHOOSE i \in S : TRUE IN f[i] + SumOver(f, S \ {i})

\* a = b for two numbers that are not NaN.
SameNumber(a, b) == a[2] # 0 /\ b[2] # 0 /\ a[1] * b[2] = b[1] * a[2]

Sent == response.list
Samples == 1..Len(Sent)
SentDate(i) == Sent[i].dt_txt[1]
SentHour(i) == Sent[i].dt_txt[2]
SentPeriod(i) == IF SentHour(i) >= 6 /\ SentHour(i) < 18 THEN "Day" ELSE "Night"
SentTemp == [i \in Samples |-> Sent[i].main.temp]
SentHumidity == [i \in Samples |-> Sent[i].main.humidity]
SentClouds == [i \in Samples |-> Sent[i].clouds.all]

\* agg_day_night has run in this run.
AggDone == day_night_agg # <<>>
Buckets == 1..Len(day_night_agg)
\* The samples of one bucket.
SamplesOf(j) ==
    {i \in Samples : SentDate(i) = day_night_agg[j].date
                        /\ SentPeriod(i) = day_night_agg[j].period}

\* C1: every sample is put in the Day bucket of its date if and only if its
\* hour-of-day h satisfies 6 <= h < 18, and in the Night bucket of its date
\* otherwise; the aggregate has no period on a date that no sample's hour
\* gives.
C1_PeriodByHour ==
    AggDone =>
        /\ \A i \in Samples : \E j \in Buckets :
              /\ day_night_agg[j].date = SentDate(i)
              /\ day_night_agg[j].period = "Day" <=> SentHour(i) \in 6..17
              /\ day_night_agg[j].period = "Night" <=> SentHour(i) \notin 6..17
        /\ \A j \in Buckets : \E i \in Samples :
              /\ SentDate(i) = day_night_agg[j].date
              /\ day_night_agg[j].period = "Day" <=> SentHour(i) \in 6..17

\* Samples at hours 6, 17 and 18 of one date were aggregated into a Day and a
\* Night bucket.
C1_Witness ==
    /\ AggDone
    /\ {SentHour(i) : i \in Samples} = {6, 17, 18}
    /\ Cardinality({SentDate(i) : i \in Samples}) = 1
    /\ {day_night_agg[j].period : j \in Buckets} = {"Day", "Night"}

\* C2: for a non-empty sample sequence, the aggregate has one bucket for each
\* distinct (date, period) pair among the samples and no other bucket, no key
\* twice, so that every sample falls in exactly one bucket.
C2_BucketsAreThePairsPresent ==
    AggDone =>
        /\ {<<day_night_agg[j].date, day_night_agg[j].period>> : j \in Buckets}
              = {<<SentDate(i), SentPeriod(i)>> : i \in Samples}
        /\ Len(day_night_agg)
              = Cardinality({<<SentDate(i), SentPeriod(i)>> : i \in Samples})
        /\ \A i \in Samples : Cardinality({j \in Buckets : i \in SamplesOf(j)}) = 1
        /\ \A j \in Buckets : SamplesOf(j) # {}

\* Three samples on two dates gave two buckets: one date has a Day bucket
\* only, the other a Night bucket only.
C2_Witness ==
    /\ AggDone
    /\ Len(Sent) = 3
    /\ Len(day_night_agg) = 2
    /\ day_night_agg[1].date # day_night_agg[2].date
    /\ day_night_agg[1].period # day_night_agg[2].period

\* C3: every bucket's temp and humidity are the sum over the count of the
\* samples of the whole forecast list with that key, and stay so whatever
\* instant the charts took as now and whatever rows their 7-day window kept.
C3_MeansOverAllSamples ==
    AggDone =>
        \A j \in Buckets :
            /\ SameNumber(day_night_agg[j].temp,
                          <<SumOver(SentTemp, SamplesOf(j)), Cardinality(SamplesOf(j))>>)
            /\ SameNumber(day_night_agg[j].humidity,
                          <<SumOver(SentHumidity, SamplesOf(j)), Cardinality(SamplesOf(j))>>)

\* Both charts are drawn, their window dropped a sample, and a bucket holds
\* two samples of different temperature and humidity.
C3_Witness ==
    /\ AggDone
    /\ Len(df_week) = 2
    /\ Len(df_week[1]) < Len(df_weather)
    /\ Len(df_week[2]) < Len(df_week[1])
    /\ \E j \in Buckets : \E a, b \in SamplesOf(j) :
          /\ SentTemp[a] # SentTemp[b]
          /\ SentHumidity[a] # SentHumidity[b]
          /\ \A k \in 1..Len(df_week[1]) : df_week[1][k].time # to_datetime(Sent[a].dt_txt)

\* C4 (as claimed): for every date, the Daily Average is the mean temperature
\* of all samples of that date.
C4_DailyAverageOverSamples ==
    AggDone =>
        \A d \in DOMAIN daily_avg :
            LET S == {i \in Samples : SentDate(i) = d}
            IN  SameNumber(daily_avg[d], <<SumOver(SentTemp, S), Cardinality(S)>>)

\* C5 (as claimed): when the cards are shown for a forecast without Night
\* samples, or without Day samples, the card of that period and the
\* Difference card say "no data".
C5_NoDataReported ==
    cards # <<>> =>
        /\ (\A i \in Samples : SentPeriod(i) = "Day") =>
              cards.night.kind = "no data" /\ cards.diff.kind = "no data"
        /\ (\A i \in Samples : SentPeriod(i) = "Night") =>
              cards.day.kind = "no data" /\ cards.diff.kind = "no data"

DayBuckets == {j \in Buckets : day_night_agg[j].period = "Day"}
NightBuckets == {j \in Buckets : day_night_agg[j].period = "Night"}
BucketTemp == [j \in Buckets |-> day_night_agg[j].temp]

RECURSIVE SumRatsOver(_, _)
SumRatsOver(f, S) ==
    IF S = {} THEN <<0, 1>>
    ELSE LET j == CHOOSE j \in S : TRUE
             rest == SumRatsOver(f, S \ {j})
         IN  <<f[j][1] * rest[2] + rest[1] * f[j][2], f[j][2] * rest[2]>>

\* The sum over S of f, divided by the size of S.
MeanOver(f, S) ==
    LET t == SumRatsOver(f, S) IN <<t[1], t[2] * Cardinality(S)>>

\* C6: with Day and Night buckets both present, the Day average is the sum of
\* the Day buckets' mean temperatures over their number, the Night average
\* likewise, and the Difference is Day average minus Night average, negative
\* when the Night average is the higher; the card shows that signed number.
C6_SignedDifference ==
    (AggDone /\ DayBuckets # {} /\ NightBuckets # {}) =>
        /\ SameNumber(day_temp_avg, MeanOver(BucketTemp, DayBuckets))
        /\ SameNumber(night_temp_avg, MeanOver(BucketTemp, NightBuckets))
        /\ temp_diff[2] > 0
        /\ temp_diff[1] * day_temp_avg[2] * night_temp_avg[2]
              = temp_diff[2] * (day_temp_avg[1] * night_temp_avg[2]
                                  - night_temp_avg[1] * day_temp_avg[2])
        /\ cards.diff.kind = "number"
        /\ 2 * Abs(10 * temp_diff[1] - cards.diff.tenths * temp_diff[2]) <= temp_diff[2]

\* Nights warmer than days: the Difference is negative, and so is the card.
C6_Witness ==
    /\ AggDone
    /\ DayBuckets # {}
    /\ NightBuckets # {}
    /\ Cardinality(DayBuckets) = 2
    /\ temp_diff[1] < 0
    /\ cards.diff.tenths < 0

\* The cloud card is drawn in this run.
CloudDone == cloud_label # ""

\* C7: the band is High iff the mean cloud coverage of all samples is above
\* 70, Moderate iff it is above 30 and at most 70, Low iff it is at most 30.
C7_CloudBands ==
    CloudDone =>
        LET total == SumOver(SentClouds, Samples)
            n == Len(Sent)
        IN  /\ cloud_label \in {"High", "Moderate", "Low"}
            /\ cloud_label = "High" <=> total > 70 * n
            /\ cloud_label = "Moderate" <=> (30 * n < total /\ total <= 70 * n)
            /\ cloud_label = "Low" <=> total <= 30 * n

\* Two samples of coverage 69 and 71, mean exactly 70: Moderate.
C7_Witness ==
    /\ CloudDone
    /\ Len(Sent) = 2
    /\ SentClouds[1] # SentClouds[2]
    /\ avg_clouds = <<70, 1>>
    /\ cloud_label = "Moderate"

\* The rows of df_weather a window starting at now keeps.
Kept(now) ==
    {i \in 1..Len(df_weather) :
        now <= df_weather[i].time /\ df_weather[i].time <= now + 7 * 24 * 3600}

\* C8: each chart draws exactly the rows with now <= time <= now + 7 days, in
\* their original order; for a forecast in time order they are consecutive
\* rows.
C8_InclusiveWindow ==
    \A c \in 1..Len(df_week) :
        LET week == df_week[c]
            keep == Kept(nows[c])
        IN  /\ Len(week) = Cardinality(keep)
            /\ \E f \in [1..Len(week) -> 1..Len(df_weather)] :
                  /\ \A a, b \in 1..Len(week) : a < b => f[a] < f[b]
                  /\ {f[a] : a \in 1..Len(week)} = keep
                  /\ \A a \in 1..Len(week) : week[a] = df_weather[f[a]]
            /\ (\A i \in 1..(Len(df_weather) - 1) :
                    df_weather[i].time <= df_weather[i + 1].time)
                 => \A i, k \in keep : \A m \in i..k : m \in keep

\* A chart kept the sample exactly 7 days after its now and dropped the
\* sample one second later.
C8_Witness ==
    /\ Len(df_week) = 2
    /\ Len(df_weather) = 2
    /\ df_weather[1].time = nows[2] + 7 * 24 * 3600
    /\ df_weather[2].time = nows[2] + 7 * 24 * 3600 + 1
    /\ df_week[2] = <<df_weather[1]>>

\* plot_cloud_heatmap has run to its end, or raised, in this run.
HeatmapOver == CloudDone /\ pc = "idle"

\* C9 (as claimed): the heatmap's pivot holds one value for each distinct (date,
\* hour) pair of the samples, a sample's coverage at that pair, also when a
\* pair occurs more than once.
C9_PivotOneValuePerPair ==
    HeatmapOver =>
        /\ DOMAIN cloud_matrix = {<<SentDate(i), SentHour(i)>> : i \in Samples}
        /\ \A k \in DOMAIN cloud_matrix : \E i \in Samples :
              /\ k = <<SentDate(i), SentHour(i)>>
              /\ cloud_matrix[k] = SentClouds[i]

\* What the forecast section puts on the page.
ForecastSections ==
    {"day_night_table", "summary_cards", "feels_like_chart", "three_charts",
     "cloud_card", "heatmap"}

Shown == {ui[k] : k \in 1..Len(ui)}

\* C10 (as claimed): when an entry of a fetched forecast lacks a required field or
\* carries one of the wrong type, nothing of the forecast section is ever
\* drawn from it, and the run ends with an error.
C10_MalformedFailsFast ==
    (response.status = 200
        /\ \E i \in Samples : Sent[i].missing # "none" \/ Sent[i].wrongtype # "none") =>
        /\ df_weather = <<>>
        /\ Shown \cap ForecastSections = {}
        /\ pc = "idle" => ui[Len(ui)] = "error"

\* Every entry of the fetched list holds every key, each of its documented type.
WellFormed ==
    \A i \in Samples : Sent[i].missing = "none" /\ Sent[i].wrongtype = "none"

\* The status test and the normalization loop are behind this run.
Normalized == response.status = 200 /\ Sent # <<>> /\ pc # "normalize"

\* C11: for a well-formed forecast response, df_weather has one row per entry
\* of the list, in the list's order, and the row's temp, feels_like, humidity,
\* wind_speed, wind_direction, clouds and description are the entry's values;
\* writing the row's time back as a dt_txt gives the entry's dt_txt.
C11_RowsAreTheEntries ==
    (Normalized /\ WellFormed) =>
        /\ Len(df_weather) = Len(Sent)
        /\ \A i \in Samples :
              /\ df_weather[i].temp = Sent[i].main.temp
              /\ df_weather[i].feels_like = Sent[i].main.feels_like
              /\ df_weather[i].humidity = Sent[i].main.humidity
              /\ df_weather[i].wind_speed = Sent[i].wind.speed
              /\ df_weather[i].wind_direction = Sent[i].wind.deg
              /\ df_weather[i].clouds = Sent[i].clouds.all
              /\ df_weather[i].description = Sent[i].weather[1].description
              /\ <<df_weather[i].time \div 86400,
                   (df_weather[i].time % 86400) \div 3600,
                   df_weather[i].time % 3600>> = Sent[i].dt_txt

\* Two well-formed entries of different time and temperature, later one
\* first, are normalized.
C11_Witness ==
    /\ Normalized
    /\ WellFormed
    /\ Len(df_weather) = 2
    /\ Sent[1].main.temp # Sent[2].main.temp
    /\ df_weather[1].time > df_weather[2].time

\* C12: in a run with the search flag set and an empty city, no GET is sent to
\* either endpoint, and the run ends having shown the enter-a-city warning
\* and nothing else.
C12_EmptyCityNoRequest ==
    (search_clicked /\ city = "") =>
        /\ gets = <<>>
        /\ response = NoResponse
        /\ pc \in {"main", "idle"}
        /\ pc = "main" => ui = <<>>
        /\ pc = "idle" => ui = <<"warning">>

\* Such a run has ended with its warning.
C12_Witness ==
    /\ search_clicked
    /\ city = ""
    /\ pc = "idle"
    /\ ui = <<"warning">>
    /\ gets = <<>>

\* How often x occurs in a sequence.
Count(s, x) == Cardinality({k \in 1..Len(s) : s[k] = x})

\* The run met one of the failures: a GET raised, a status other than 200
\* came back, or the body lacked a field the script reads.
RunFailed ==
    \/ gets = <<"weather">> /\ response = NoResponse
    \/ gets = <<"weather", "forecast">> /\ pc = "idle" /\ Sent = <<>>
    \/ response.status \notin {0, 200}
    \/ response.status = 200 /\ ~response.complete

\* C13: a run sends at most one GET to each endpoint; a run that met a
\* failure shows exactly one error message, nothing follows it but the failed
\* response's text, and the run is over (the next interaction starts a new
\* run); no run shows more than one.
C13_NoRetryOneError ==
    /\ Count(gets, "weather") <= 1
    /\ Count(gets, "forecast") <= 1
    /\ Count(ui, "error") <= 1
    /\ "error" \in Shown =>
          /\ pc = "idle"
          /\ \A k \in 1..Len(ui) :
                ui[k] = "error" => SubSeq(ui, k + 1, Len(ui)) \in {<<>>, <<"response_text">>}
    /\ (pc = "idle" /\ RunFailed) => Count(ui, "error") = 1
    /\ (pc = "idle" /\ gets # <<>> /\ "error" \notin Shown) => ui[Len(ui)] = "heatmap"

\* The forecast GET raised after the current weather was shown: one error,
\* one GET to each endpoint, the run over.
C13_Witness ==
    /\ pc = "idle"
    /\ gets = <<"weather", "forecast">>
    /\ Sent = <<>>
    /\ ui = <<"current", "error">>

\* The page of a run that went through, section by section.
FullPage ==
    <<"current", "day_night_table", "summary_cards", "feels_like_chart",
      "three_charts", "cloud_card", "heatmap">>

\* The sections this run has drawn, in order.
SectionsShown ==
    SelectSeqBy(ui, {k \in 1..Len(ui) :
                        ui[k] \notin {"error", "response_text", "warning", "welcome"}})

C14_Order ==
    /\ gets \in {<<>>, <<"weather">>, <<"weather", "forecast">>}
    /\ "forecast" \in {gets[k] : k \in 1..Len(gets)} => (ui # <<>> /\ ui[1] = "current")
    /\ (df_weather # <<>> \/ Shown \cap ForecastSections # {}) =>
          /\ gets = <<"weather", "forecast">>
          /\ response.status = 200
          /\ Sent # <<>>
          /\ df_weather # <<>>
    /\ SectionsShown = SubSeq(FullPage, 1, Len(SectionsShown))

C14_Step ==
    /\ Len(gets') > Len(gets) /\ gets'[Len(gets')] = "forecast" =>
          /\ response.status = 200
          /\ response.complete
          /\ gets = <<"weather">>
          /\ ui = <<"current">>
    /\ Len(gets') > Len(gets) /\ gets'[Len(gets')] = "weather" => gets = <<>> /\ ui = <<>>
    /\ df_weather' # df_weather /\ df_weather' # <<>> =>
          /\ response.status = 200
          /\ Sent # <<>>
          /\ gets = <<"weather", "forecast">>
          /\ UNCHANGED <<gets, response>>

\* C14: a run is one sequence: the forecast GET is sent only from the state
\* in which the current-weather response had status 200, its fields were read
\* and its section drawn; the frame is built, and the forecast sections are
\* drawn in their order, only from a forecast response of status 200; a run
\* whose current-weather stage failed never sends the forecast GET.
C14_SequentialPipeline == []C14_Order /\ [][C14_Step]_vars

\* A run went through both requests and drew every section.
C14_Witness ==
    /\ pc = "idle"
    /\ gets = <<"weather", "forecast">>
    /\ ui = FullPage

\* The names in a list.
Names(list) == {list[k] : k \in 1..Len(list)}

\* A list with every occurrence of a name taken out.
Without(list, name) == SelectSeq(list, LAMBDA f : f # name)

C15_NoDuplicates ==
    \A i, j \in 1..Len(favorites) : favorites[i] = favorites[j] => i = j

C15_Step ==
    IF pc = "idle" /\ pressed'.button = "Add"
    THEN IF pressed'.name = "" \/ pressed'.name \in Names(favorites)
         THEN favorites' = favorites /\ ~saved'
         ELSE favorites' = Append(favorites, pressed'.name) /\ saved'
    ELSE IF pc = "idle" /\ pressed'.button = "Remove"
    THEN /\ pressed'.name \in Names(favorites)
         /\ favorites' = Without(favorites, pressed'.name)
         /\ saved'
    ELSE favorites' = favorites

\* C15: the stored favorites never hold a name twice; a run that adds an
\* empty name or a name already stored leaves the list as it was and saves
\* nothing, a run that adds a new name appends it at the end and saves, and a
\* run that removes a name saves the list without any occurrence of it, the
\* others in their order.
C15_FavoritesNoDuplicates == []C15_NoDuplicates /\ [][C15_Step]_vars

\* "Add" was pressed with a name already among two or more favorites, and
\* nothing was saved.
C15_Witness ==
    /\ pressed.button = "Add"
    /\ pressed.name \in Names(favorites)
    /\ ~saved
    /\ Len(favorites) >= 2

====
